---- MODULE Spec2Model ----
(***************************************************************************)
(* State-machine model of static/js/app.js, the dashboard controller of    *)
(* Stonermart: the two globals, the DOM surfaces the handlers write, the   *)
(* asynchronous flows suspended at their awaits, and the backend the       *)
(* fetch calls talk to.                                                    *)
(*                                                                         *)
(* One action is one JavaScript task: an event handler run up to its first *)
(* await, or the resumption of a suspended flow when its promise settles,  *)
(* run up to the next await.  An await on a nested async function that has *)
(* already finished resumes in the same microtask checkpoint, so it is     *)
(* part of the same action.  The resumption between await fetch(...) and   *)
(* await response.json() reads and writes only locals of the flow, so it   *)
(* commutes with every other task and is taken together with the           *)
(* resumption that follows it: a request settles in one action, with the   *)
(* status and the body the response turned out to have.                    *)
(***************************************************************************)
EXTENDS Integers, Sequences, FiniteSets, TLC

\* ------------------------------------------------------------------ bounds
MaxId == 2
MaxOps == 2
MaxFlows == 2
\* displayMetrics as a function: arrays of at most MaxSamples samples whose
\* clicks and impressions are in 0..MaxCount
MaxSamples == 2
MaxCount == 2

Ids == 0..MaxId
\* the websites the backend holds when the page loads; the other ids are
\* free for websites created later
InitialWebsites == {0, 1}
\* JavaScript null, kept apart from every website id (0 is an id, not null)
NULL == -1
\* the options of the date-range control (trailing days)
DayChoices == {7, 30}

VARIABLES
    currentWebsiteId,   \* app.js:2
    performanceChart,   \* app.js:3, a chart handle or NULL
    charts,             \* chart instances created and not destroyed: handle -> data
    grid,               \* content of #websites-grid
    metricsSection,     \* #metrics-section style.display
    summary,            \* the four summary fields written by displayMetrics
    loadingOverlay,     \* #loading-overlay style.display
    modal,              \* #add-website-modal style.display
    dateRange,          \* #date-range value
    notifications,      \* notification elements attached to document.body
    flows,              \* async functions suspended at an await, in start order
    server,             \* ids of the websites the backend holds
    nOps,               \* user events handled so far
    last,               \* what the latest task did (history variable)
    metricsArg,         \* the array displayMetrics was last called with
    latest              \* the metrics request issued most recently (history variable)

vars == <<currentWebsiteId, performanceChart, charts, grid, metricsSection,
          summary, loadingOverlay, modal, dateRange, notifications, flows,
          server, nOps, last, metricsArg, latest>>

\* ----------------------------------------------------------------- helpers
\* JavaScript truthiness of a value that is null or a number
Truthy(x) == x # NULL /\ x # 0

RECURSIVE SetToSeq(_)
SetToSeq(S) ==
    IF S = {} THEN <<>>
    ELSE LET m == CHOOSE x \in S : \A y \in S : x <= y
         IN <<m>> \o SetToSeq(S \ {m})

RECURSIVE SumOf(_, _)
\* metrics.reduce((sum, m) => sum + m.<field>, 0)
SumOf(metrics, field) ==
    IF Len(metrics) = 0 THEN 0
    ELSE metrics[1][field] + SumOf(Tail(metrics), field)

RemoveAt(s, i) == [k \in 1..(Len(s) - 1) |-> IF k < i THEN s[k] ELSE s[k + 1]]

\* ----------------------------------------------------------------- backend
\* The Website record the backend returns for an id
WebsiteRecord(id) ==
    [id |-> id, is_verified |-> (id % 2 = 1), last_audit |-> (id % 2 = 0)]

\* GET /api/websites success body
WebsiteList(srv) ==
    LET s == SetToSeq(srv) IN [k \in 1..Len(s) |-> WebsiteRecord(s[k])]

\* GET /api/websites/{id}/metrics?days={n} success body
MetricsOf(id, days) ==
    LET n == IF days = 7 THEN 1 ELSE 2
    IN [k \in 1..n |-> [clicks |-> id + k, impressions |-> days * k, position |-> k + 3]]

Request(method, resource, id, days) ==
    [method |-> method, resource |-> resource, id |-> id, days |-> days]

\* A response body: kind "array" is a JSON array (of websites in list, of
\* samples in metrics), "object" a JSON object without an error field,
\* "error_msg" the object {error: "..."}, "bad" a body that is not JSON.
Body(kind, list, metrics) == [kind |-> kind, list |-> list, metrics |-> metrics]

NoBody == Body("none", <<>>, <<>>)

\* The bodies a non-2xx response may carry
ErrorBodies ==
    {Body("error_msg", <<>>, <<>>), Body("object", <<>>, <<>>), Body("bad", <<>>, <<>>)}

\* The bodies a response to GET /api/websites may carry
ListBodies(ok, srv) ==
    IF ok THEN {Body("array", WebsiteList(srv), <<>>)}
    ELSE ErrorBodies \cup {Body("array", <<>>, <<>>)}

\* The bodies a response to GET /api/websites/{id}/metrics may carry
MetricsBodies(ok, id, days) ==
    IF ok THEN {Body("array", <<>>, MetricsOf(id, days))}
    ELSE ErrorBodies \cup {Body("array", <<>>, <<>>)}

\* The bodies a response to POST /api/websites/{id}/audit may carry
AuditBodies(ok) ==
    IF ok THEN {Body("object", <<>>, <<>>)} ELSE ErrorBodies

\* ------------------------------------------------------------- pure render
DisplayWebsitesNoEmptyState(websites) ==
    [empty |-> FALSE,
     cards |-> [k \in 1..Len(websites) |->
                  [id |-> websites[k].id,
                   status |-> IF websites[k].is_verified THEN "Verified" ELSE "Pending",
                   audit |-> IF websites[k].last_audit THEN "Recent" ELSE "Never"]]]

\* displayWebsites: the value assigned to grid.innerHTML
DisplayWebsites(websites) ==
    IF Len(websites) = 0
    THEN [empty |-> TRUE, cards |-> <<>>]
    ELSE [empty |-> FALSE,
          cards |-> [k \in 1..Len(websites) |->
                       [id |-> websites[k].id,
                        status |-> IF websites[k].is_verified THEN "Verified" ELSE "Pending",
                        audit |-> IF websites[k].last_audit THEN "Recent" ELSE "Never"]]]

Text(fmt, val, pct) == [fmt |-> fmt, val |-> val, pct |-> pct]

DisplayMetricsNoZeroGuard(metrics) ==
    IF Len(metrics) = 0
    THEN [clicks |-> Text("int", 0, FALSE), impressions |-> Text("int", 0, FALSE),
          ctr |-> Text("int", 0, TRUE), position |-> Text("int", 0, FALSE)]
    ELSE LET totalClicks == SumOf(metrics, "clicks")
             totalImpressions == SumOf(metrics, "impressions")
         IN [clicks |-> Text("locale", totalClicks, FALSE),
             impressions |-> Text("locale", totalImpressions, FALSE),
             ctr |-> IF totalImpressions > 0
                     THEN Text("fixed2",
                               (2 * 10000 * totalClicks + totalImpressions)
                                   \div (2 * totalImpressions), TRUE)
                     ELSE Text("NaN", 0, TRUE),
             position |-> Text("fixed1",
                               (2 * 10 * SumOf(metrics, "position") + Len(metrics))
                                   \div (2 * Len(metrics)), FALSE)]

\* displayMetrics: the textContent of the four summary fields.  fmt "int" is
\* a decimal literal, "locale" is Number.toLocaleString(), "fixed2"/"fixed1"
\* is toFixed with val in hundredths/tenths.
DisplayMetrics(metrics) ==
    IF Len(metrics) = 0
    THEN [clicks |-> Text("int", 0, FALSE), impressions |-> Text("int", 0, FALSE),
          ctr |-> Text("int", 0, TRUE), position |-> Text("int", 0, FALSE)]
    ELSE LET totalClicks == SumOf(metrics, "clicks")
             totalImpressions == SumOf(metrics, "impressions")
             avgCtr == IF totalImpressions > 0
                       THEN Text("fixed2",
                                 (2 * 10000 * totalClicks + totalImpressions)
                                     \div (2 * totalImpressions), TRUE)
                       ELSE Text("int", 0, TRUE)
             avgPosition == Text("fixed1",
                                 (2 * 10 * SumOf(metrics, "position") + Len(metrics))
                                     \div (2 * Len(metrics)), FALSE)
         IN [clicks |-> Text("locale", totalClicks, FALSE),
             impressions |-> Text("locale", totalImpressions, FALSE),
             ctr |-> avgCtr, position |-> avgPosition]

NoSummary ==
    [clicks |-> Text("none", 0, FALSE), impressions |-> Text("none", 0, FALSE),
     ctr |-> Text("none", 0, FALSE), position |-> Text("none", 0, FALSE)]

\* new Chart(...): a handle no earlier instance had
NewHandle(held, live) ==
    LET used == live \cup {held} \cup {0}
    IN 1 + (CHOOSE h \in used : \A g \in used : g <= h)

UpdateChartKeepsOld(metrics, held, live) ==
    LET new == NewHandle(held, DOMAIN live)
    IN <<[h \in (DOMAIN live) \cup {new} |-> IF h = new THEN metrics ELSE live[h]], new>>

\* updateChart: destroy the held instance, create one, store it.
\* Gives the pair <<charts', performanceChart'>>.
UpdateChart(metrics, held, live) ==
    LET kept == IF held # NULL
                THEN [h \in (DOMAIN live) \ {held} |-> live[h]]
                ELSE live
        new == NewHandle(held, DOMAIN kept)
    IN <<[h \in (DOMAIN kept) \cup {new} |-> IF h = new THEN metrics ELSE kept[h]], new>>

PanelShownHidden == "none"

\* selectWebsite: the display value assigned to #metrics-section
PanelShown == "block"

\* showLoading / hideLoading: the display value each assigns to the overlay
ShowLoading == "flex"

HideLoadingStuck == "flex"

HideLoading == "none"

Note(type, message) == [type |-> type, message |-> message]

\* What one task did: the handler or resumption, the flow it belongs to (or
\* "event" for a task that is no resumption), its argument, how the awaited
\* promise settled, the selection before the task, the requests sent, the
\* notifications shown and the render functions called.
Event(op, kind, id, outcome, sent, notes, calls) ==
    [op |-> op, kind |-> kind, id |-> id, outcome |-> outcome, cur |-> currentWebsiteId,
     sent |-> sent, notes |-> notes, calls |-> calls]

\* An async call chain suspended at the request pc awaits: pc "lw" is the GET
\* of loadWebsites, "lm" the GET of loadWebsiteMetrics, "add" the POST of
\* handleAddWebsite, "del" the DELETE of deleteWebsite, "audit" the POST of
\* runAudit.  kind is the handler that started the chain.
Flow(kind, pc, id, days) == [kind |-> kind, pc |-> pc, id |-> id, days |-> days]

\* The record of a metrics request at the moment fetch is called for it;
\* done becomes "ok" when its 2xx response has been rendered and "failed"
\* when the request ended any other way.
Issued(id, days) == [id |-> id, days |-> days, done |-> "pending"]

\* -------------------------------------------------------------------- Init
\* The state after the DOMContentLoaded handler: loadWebsites() has shown the
\* overlay and issued its fetch, setupEventListeners() has run.
InitState ==
    /\ currentWebsiteId = NULL
    /\ performanceChart = NULL
    /\ charts = <<>>
    /\ grid = [empty |-> FALSE, cards |-> <<>>]
    /\ metricsSection = "none"
    /\ summary = NoSummary
    /\ loadingOverlay = ShowLoading
    /\ modal = "none"
    /\ dateRange = 7
    /\ notifications = <<>>
    /\ flows = <<Flow("load", "lw", NULL, 0)>>
    /\ server = InitialWebsites
    /\ nOps = 0
    /\ last = [op |-> "DOMContentLoaded", kind |-> "event", id |-> NULL, outcome |-> "none", cur |-> NULL,
               sent |-> <<Request("GET", "websites", NULL, 0)>>, notes |-> <<>>,
               calls |-> <<>>]
    /\ latest = [id |-> NULL, days |-> 0, done |-> "none"]

Init == InitState /\ metricsArg = <<>>

\* ------------------------------------------------------------ user events
HasCard(id) == \E k \in 1..Len(grid.cards) : grid.cards[k].id = id

CanHandle == nOps < MaxOps

CanStart == Len(flows) < MaxFlows

\* showNotification: append the elements to document.body
Show(notes) == notifications' = notifications \o notes

\* showAddWebsiteModal (the "add website" buttons)
ShowAddWebsiteModal ==
    /\ CanHandle
    /\ modal = "none"
    /\ modal' = "block"
    /\ last' = Event("showAddWebsiteModal", "event", NULL, "none", <<>>, <<>>, <<>>)
    /\ nOps' = nOps + 1
    /\ UNCHANGED <<currentWebsiteId, performanceChart, charts, grid, metricsSection,
                   summary, loadingOverlay, dateRange, notifications, flows, server>>
    /\ UNCHANGED <<metricsArg, latest>>

\* hideAddWebsiteModal (cancel button, click outside the modal)
HideAddWebsiteModal ==
    /\ CanHandle
    /\ modal = "block"
    /\ modal' = "none"
    /\ last' = Event("hideAddWebsiteModal", "event", NULL, "none", <<>>, <<>>, <<>>)
    /\ nOps' = nOps + 1
    /\ UNCHANGED <<currentWebsiteId, performanceChart, charts, grid, metricsSection,
                   summary, loadingOverlay, dateRange, notifications, flows, server>>
    /\ UNCHANGED <<metricsArg, latest>>

\* selectWebsite(websiteId, websiteName), the onclick of a rendered card, up
\* to the await of fetch in loadWebsiteMetrics
SelectWebsite(websiteId) ==
    /\ CanHandle /\ CanStart
    /\ HasCard(websiteId)
    /\ currentWebsiteId' = websiteId
    /\ metricsSection' = PanelShown
    /\ loadingOverlay' = ShowLoading
    /\ flows' = Append(flows, Flow("select", "lm", websiteId, dateRange))
    /\ last' = Event("selectWebsite", "event", websiteId, "none",
                     <<Request("GET", "metrics", websiteId, dateRange)>>, <<>>, <<>>)
    /\ nOps' = nOps + 1
    /\ UNCHANGED <<performanceChart, charts, grid, summary, modal, dateRange,
                   notifications, server>>
    /\ latest' = Issued(websiteId, dateRange)
    /\ UNCHANGED metricsArg

\* the change listener of #date-range
DateRangeChange(days) ==
    /\ CanHandle
    /\ days # dateRange
    /\ dateRange' = days
    /\ IF Truthy(currentWebsiteId)
       THEN /\ CanStart
            /\ loadingOverlay' = ShowLoading
            /\ flows' = Append(flows, Flow("range", "lm", currentWebsiteId, days))
            /\ last' = Event("dateRangeChange", "event", currentWebsiteId, "none",
                             <<Request("GET", "metrics", currentWebsiteId, days)>>,
                             <<>>, <<>>)
       ELSE /\ last' = Event("dateRangeChange", "event", currentWebsiteId, "none", <<>>, <<>>, <<>>)
            /\ UNCHANGED <<loadingOverlay, flows>>
    /\ nOps' = nOps + 1
    /\ UNCHANGED <<currentWebsiteId, performanceChart, charts, grid, metricsSection,
                   summary, modal, notifications, server>>
    /\ latest' = IF Truthy(currentWebsiteId) THEN Issued(currentWebsiteId, days) ELSE latest
    /\ UNCHANGED metricsArg

\* handleAddWebsite(e), the submit listener of the form inside the modal, up
\* to the await of fetch
HandleAddWebsite ==
    /\ CanHandle /\ CanStart
    /\ modal = "block"
    /\ loadingOverlay' = ShowLoading
    /\ flows' = Append(flows, Flow("add", "add", NULL, 0))
    /\ last' = Event("handleAddWebsite", "event", NULL, "none",
                     <<Request("POST", "websites", NULL, 0)>>, <<>>, <<>>)
    /\ nOps' = nOps + 1
    /\ UNCHANGED <<currentWebsiteId, performanceChart, charts, grid, metricsSection,
                   summary, modal, dateRange, notifications, server>>
    /\ UNCHANGED <<metricsArg, latest>>

DeleteProceedsAlways(confirmed) == TRUE

\* deleteWebsite: the confirm() guard
DeleteProceeds(confirmed) == confirmed

\* deleteWebsite(websiteId), the onclick of a card's delete button, up to the
\* await of fetch; confirmed is the answer to the confirm() dialog
DeleteWebsite(websiteId, confirmed) ==
    /\ CanHandle
    /\ HasCard(websiteId)
    /\ IF DeleteProceeds(confirmed)
       THEN /\ CanStart
            /\ loadingOverlay' = ShowLoading
            /\ flows' = Append(flows, Flow("delete", "del", websiteId, 0))
            /\ last' = Event("deleteWebsite", "event", websiteId,
                             IF confirmed THEN "confirmed" ELSE "declined",
                             <<Request("DELETE", "website", websiteId, 0)>>, <<>>, <<>>)
       ELSE /\ last' = Event("deleteWebsite", "event", websiteId,
                             IF confirmed THEN "confirmed" ELSE "declined",
                             <<>>, <<>>, <<>>)
            /\ UNCHANGED <<loadingOverlay, flows>>
    /\ nOps' = nOps + 1
    /\ UNCHANGED <<currentWebsiteId, performanceChart, charts, grid, metricsSection,
                   summary, modal, dateRange, notifications, server>>
    /\ UNCHANGED <<metricsArg, latest>>

AuditBlockedNever(cur) == FALSE

\* runAudit: the guard !currentWebsiteId
AuditBlocked(cur) == ~Truthy(cur)

\* runAudit(), up to the await of fetch
RunAudit ==
    /\ CanHandle
    /\ IF AuditBlocked(currentWebsiteId)
       THEN /\ Show(<<Note("error", "Please select a website first")>>)
            /\ last' = Event("runAudit", "event", currentWebsiteId, "none", <<>>,
                             <<Note("error", "Please select a website first")>>, <<>>)
            /\ UNCHANGED <<loadingOverlay, flows>>
       ELSE /\ CanStart
            /\ loadingOverlay' = ShowLoading
            /\ flows' = Append(flows, Flow("audit", "audit", currentWebsiteId, 0))
            /\ last' = Event("runAudit", "event", currentWebsiteId, "none",
                             <<Request("POST", "audit", currentWebsiteId, 0)>>, <<>>, <<>>)
            /\ UNCHANGED notifications
    /\ nOps' = nOps + 1
    /\ UNCHANGED <<currentWebsiteId, performanceChart, charts, grid, metricsSection,
                   summary, modal, dateRange, server>>
    /\ UNCHANGED <<metricsArg, latest>>

\* refreshData(), up to the await of fetch in loadWebsites
RefreshData ==
    /\ CanHandle /\ CanStart
    /\ loadingOverlay' = ShowLoading
    /\ flows' = Append(flows, Flow("refresh", "lw", NULL, 0))
    /\ last' = Event("refreshData", "event", NULL, "none",
                     <<Request("GET", "websites", NULL, 0)>>, <<>>, <<>>)
    /\ nOps' = nOps + 1
    /\ UNCHANGED <<currentWebsiteId, performanceChart, charts, grid, metricsSection,
                   summary, modal, dateRange, notifications, server>>
    /\ UNCHANGED <<metricsArg, latest>>

NotificationExpiresAll ==
    /\ Len(notifications) > 0
    /\ notifications' = <<>>
    /\ last' = Event("notificationExpires", "event", NULL, "none", <<>>, <<>>, <<>>)
    /\ UNCHANGED <<currentWebsiteId, performanceChart, charts, grid, metricsSection,
                   summary, loadingOverlay, modal, dateRange, flows, server, nOps>>
    /\ UNCHANGED <<metricsArg, latest>>

\* The timers of the oldest notification: after 5000 ms the callback starts
\* the slide-out animation of its own element and sets the 300 ms timer whose
\* callback removes that element from its parent.  The first callback writes
\* nothing but the element's style, so the two are taken as one step.  Equal
\* delays fire in the order the timers were set.
NotificationExpires ==
    /\ Len(notifications) > 0
    /\ notifications' = Tail(notifications)
    /\ last' = Event("notificationExpires", "event", NULL, "none", <<>>, <<>>, <<>>)
    /\ UNCHANGED <<currentWebsiteId, performanceChart, charts, grid, metricsSection,
                   summary, loadingOverlay, modal, dateRange, flows, server, nOps>>
    /\ UNCHANGED <<metricsArg, latest>>

\* ------------------------------------------------------------ resumptions
Pending(i, pc) == i \in 1..Len(flows) /\ flows[i].pc = pc

\* How a request settles: a 2xx response, another response, or a rejection
Outcomes == {"ok", "notok", "reject"}

ServerError == "<error of the response body>"

ClearsSelectionAlways(cur, websiteId) == TRUE

\* deleteWebsite: currentWebsiteId === websiteId
ClearsSelection(cur, websiteId) == cur = websiteId

\* The end of loadWebsites in flow i and what its caller does next in the
\* same task.  newGrid is the grid after the try block, notes and calls are
\* the notifications shown and the render functions called by loadWebsites.
LoadWebsitesEnds(i, outcome, newGrid, notes, calls) ==
    LET f == flows[i]
        refreshed == Note("success", "Data refreshed!")
    IN /\ grid' = newGrid
       /\ CASE f.kind = "delete" ->
                 /\ IF ClearsSelection(currentWebsiteId, f.id)
                    THEN metricsSection' = "none" /\ currentWebsiteId' = NULL
                    ELSE UNCHANGED <<metricsSection, currentWebsiteId>>
                 /\ loadingOverlay' = HideLoading
                 /\ flows' = RemoveAt(flows, i)
                 /\ Show(notes)
                 /\ last' = Event("loadWebsites", f.kind, f.id, outcome, <<>>, notes, calls)
            [] f.kind = "refresh" /\ Truthy(currentWebsiteId) ->
                 /\ loadingOverlay' = ShowLoading
                 /\ flows' = [flows EXCEPT ![i] =
                                 Flow("refresh", "lm", currentWebsiteId, dateRange)]
                 /\ Show(notes)
                 /\ last' = Event("loadWebsites", f.kind, f.id, outcome,
                                  <<Request("GET", "metrics", currentWebsiteId, dateRange)>>,
                                  notes, calls)
                 /\ UNCHANGED <<metricsSection, currentWebsiteId>>
            [] f.kind = "refresh" /\ ~Truthy(currentWebsiteId) ->
                 /\ loadingOverlay' = HideLoading
                 /\ flows' = RemoveAt(flows, i)
                 /\ Show(notes \o <<refreshed>>)
                 /\ last' = Event("loadWebsites", f.kind, f.id, outcome, <<>>,
                                  notes \o <<refreshed>>, calls)
                 /\ UNCHANGED <<metricsSection, currentWebsiteId>>
            [] OTHER ->
                 /\ loadingOverlay' = HideLoading
                 /\ flows' = RemoveAt(flows, i)
                 /\ Show(notes)
                 /\ last' = Event("loadWebsites", f.kind, f.id, outcome, <<>>, notes, calls)
                 /\ UNCHANGED <<metricsSection, currentWebsiteId>>
       /\ latest' = IF f.kind = "refresh" /\ Truthy(currentWebsiteId)
                    THEN Issued(currentWebsiteId, dateRange) ELSE latest
       /\ UNCHANGED <<performanceChart, charts, summary, modal, dateRange, server, nOps,
                      metricsArg>>

\* loadWebsites: the request of fetch('/api/websites') settles, the body is
\* parsed and rendered, and loadWebsites ends
LoadWebsitesSettles(i, outcome, body) ==
    /\ Pending(i, "lw")
    /\ LET failed == <<Note("error", "Error loading websites")>>
       IN CASE outcome = "reject" ->
                 /\ body = NoBody
                 /\ LoadWebsitesEnds(i, outcome, grid, failed, <<>>)
            [] outcome # "reject" /\ body.kind = "array" ->
                 /\ body \in ListBodies(outcome = "ok", server)
                 /\ LoadWebsitesEnds(i, outcome, DisplayWebsites(body.list), <<>>,
                                     <<"displayWebsites">>)
            [] outcome # "reject" /\ body.kind = "bad" ->
                 \* response.json() rejects
                 /\ body \in ListBodies(outcome = "ok", server)
                 /\ LoadWebsitesEnds(i, outcome, grid, failed, <<>>)
            [] OTHER ->
                 \* websites.map is not a function: thrown before grid.innerHTML is set
                 /\ body \in ListBodies(outcome = "ok", server)
                 /\ LoadWebsitesEnds(i, outcome, grid, failed, <<"displayWebsites">>)

\* The end of loadWebsiteMetrics in flow i and what its caller does next in
\* the same task.
MetricsEnds(i, outcome, notes, calls) ==
    LET f == flows[i]
        shown == IF f.kind = "refresh"
                 THEN notes \o <<Note("success", "Data refreshed!")>>
                 ELSE notes
    IN /\ loadingOverlay' = HideLoading
       /\ flows' = RemoveAt(flows, i)
       /\ Show(shown)
       /\ last' = Event("loadWebsiteMetrics", f.kind, f.id, outcome, <<>>, shown, calls)
       /\ latest' = IF f.id = latest.id /\ f.days = latest.days
                    THEN [latest EXCEPT !.done = IF outcome = "ok" /\ Len(calls) = 2
                                                 THEN "ok" ELSE "failed"]
                    ELSE latest
       /\ UNCHANGED <<currentWebsiteId, grid, metricsSection, modal, dateRange, server, nOps>>

\* loadWebsiteMetrics: the request of fetch(`/api/websites/${websiteId}/metrics?days=${days}`)
\* settles, the body is parsed and rendered, and loadWebsiteMetrics ends
MetricsSettles(i, outcome, body) ==
    /\ Pending(i, "lm")
    /\ outcome = "ok" => flows[i].id \in server
    /\ LET failed == <<Note("error", "Error loading metrics")>>
           chart == UpdateChart(body.metrics, performanceChart, charts)
       IN CASE outcome = "reject" ->
                 /\ body = NoBody
                 /\ MetricsEnds(i, outcome, failed, <<>>)
                 /\ UNCHANGED <<performanceChart, charts, summary, metricsArg>>
            [] outcome # "reject" /\ body.kind = "array" ->
                 /\ body \in MetricsBodies(outcome = "ok", flows[i].id, flows[i].days)
                 /\ metricsArg' = body.metrics
                 /\ summary' = DisplayMetrics(body.metrics)
                 /\ charts' = chart[1]
                 /\ performanceChart' = chart[2]
                 /\ MetricsEnds(i, outcome, <<>>, <<"displayMetrics", "updateChart">>)
            [] outcome # "reject" /\ body.kind = "bad" ->
                 \* response.json() rejects
                 /\ body \in MetricsBodies(outcome = "ok", flows[i].id, flows[i].days)
                 /\ MetricsEnds(i, outcome, failed, <<>>)
                 /\ UNCHANGED <<performanceChart, charts, summary, metricsArg>>
            [] OTHER ->
                 \* metrics.reduce is not a function: thrown before any field is set
                 /\ body \in MetricsBodies(outcome = "ok", flows[i].id, flows[i].days)
                 /\ MetricsEnds(i, outcome, failed, <<"displayMetrics">>)
                 /\ UNCHANGED <<performanceChart, charts, summary, metricsArg>>

AddSucceededUnchecked(outcome) == outcome # "reject"

\* handleAddWebsite: the fetch resolved and response.ok
AddSucceeded(outcome) == outcome = "ok"

\* handleAddWebsite: the request of fetch('/api/websites', {method: 'POST'})
\* settles; newId is the id the backend gives the new website.  On success
\* the calls are hideAddWebsiteModal, showNotification, loadWebsites, in
\* that order.
AddSettles(i, outcome, body, newId) ==
    /\ Pending(i, "add")
    /\ IF outcome = "ok" THEN newId \in Ids \ server ELSE newId = NULL
    /\ IF outcome = "notok" THEN body \in ErrorBodies ELSE body = NoBody
    /\ server' = IF outcome = "ok" THEN server \cup {newId} ELSE server
    /\ CASE AddSucceeded(outcome) ->
              /\ modal' = "none"
              /\ Show(<<Note("success", "Website added successfully!")>>)
              /\ loadingOverlay' = ShowLoading
              /\ flows' = [flows EXCEPT ![i].pc = "lw"]
              /\ last' = Event("handleAddWebsite", "add", NULL, outcome,
                               <<Request("GET", "websites", NULL, 0)>>,
                               <<Note("success", "Website added successfully!")>>,
                               <<"hideAddWebsiteModal", "showNotification", "loadWebsites">>)
         [] ~AddSucceeded(outcome) /\ outcome = "notok" ->
              \* error.error, or the fallback when the body has none or is not JSON
              /\ LET message == IF body.kind = "error_msg"
                                THEN ServerError ELSE "Error adding website"
                 IN /\ Show(<<Note("error", message)>>)
                    /\ last' = Event("handleAddWebsite", "add", NULL, outcome, <<>>,
                                     <<Note("error", message)>>, <<"showNotification">>)
              /\ loadingOverlay' = HideLoading
              /\ flows' = RemoveAt(flows, i)
              /\ UNCHANGED modal
         [] OTHER ->
              /\ Show(<<Note("error", "Error adding website")>>)
              /\ loadingOverlay' = HideLoading
              /\ flows' = RemoveAt(flows, i)
              /\ last' = Event("handleAddWebsite", "add", NULL, outcome, <<>>,
                               <<Note("error", "Error adding website")>>,
                               <<"showNotification">>)
              /\ UNCHANGED modal
    /\ UNCHANGED <<currentWebsiteId, performanceChart, charts, grid, metricsSection,
                   summary, dateRange, nOps>>
    /\ UNCHANGED <<metricsArg, latest>>

DeleteSucceededUnchecked(outcome) == outcome # "reject"

\* deleteWebsite: the fetch resolved and response.ok
DeleteSucceeded(outcome) == outcome = "ok"

\* deleteWebsite: the request of fetch(`/api/websites/${websiteId}`, {method: 'DELETE'})
\* settles
DeleteSettles(i, outcome) ==
    /\ Pending(i, "del")
    /\ outcome = "ok" => flows[i].id \in server
    /\ server' = IF outcome = "ok" THEN server \ {flows[i].id} ELSE server
    /\ IF DeleteSucceeded(outcome)
       THEN /\ Show(<<Note("success", "Website deleted successfully!")>>)
            /\ loadingOverlay' = ShowLoading
            /\ flows' = [flows EXCEPT ![i].pc = "lw"]
            /\ last' = Event("deleteWebsite", "delete", flows[i].id, outcome,
                             <<Request("GET", "websites", NULL, 0)>>,
                             <<Note("success", "Website deleted successfully!")>>, <<>>)
       ELSE /\ Show(<<Note("error", "Error deleting website")>>)
            /\ loadingOverlay' = HideLoading
            /\ flows' = RemoveAt(flows, i)
            /\ last' = Event("deleteWebsite", "delete", flows[i].id, outcome, <<>>,
                             <<Note("error", "Error deleting website")>>, <<>>)
    /\ UNCHANGED <<currentWebsiteId, performanceChart, charts, grid, metricsSection,
                   summary, modal, dateRange, nOps>>
    /\ UNCHANGED <<metricsArg, latest>>

\* runAudit: the request of fetch(`/api/websites/${currentWebsiteId}/audit`, {method: 'POST'})
\* settles and the outcome is reported
AuditSettles(i, outcome, body) ==
    /\ Pending(i, "audit")
    /\ outcome = "ok" => flows[i].id \in server
    /\ IF outcome = "reject" THEN body = NoBody ELSE body \in AuditBodies(outcome = "ok")
    /\ LET note == CASE outcome = "reject" \/ body.kind = "bad" ->
                          Note("error", "Error running audit")
                     [] outcome = "ok" -> Note("success", "Audit completed successfully!")
                     [] body.kind = "error_msg" -> Note("error", ServerError)
                     [] OTHER -> Note("error", "Error running audit")
       IN /\ Show(<<note>>)
          /\ last' = Event("runAudit", "audit", flows[i].id, outcome, <<>>, <<note>>, <<>>)
    /\ loadingOverlay' = HideLoading
    /\ flows' = RemoveAt(flows, i)
    /\ UNCHANGED <<currentWebsiteId, performanceChart, charts, grid, metricsSection,
                   summary, modal, dateRange, server, nOps>>
    /\ UNCHANGED <<metricsArg, latest>>

\* -------------------------------------------------------------------- Next
Slots == 1..MaxFlows

\* What the settlement of a request delivers: nothing when the fetch
\* rejects, else one of the bodies the endpoint may answer with
Replies(outcome, bodies) == IF outcome = "reject" THEN {NoBody} ELSE bodies

UserEvent ==
    \/ ShowAddWebsiteModal
    \/ HideAddWebsiteModal
    \/ \E id \in Ids : SelectWebsite(id)
    \/ \E d \in DayChoices : DateRangeChange(d)
    \/ HandleAddWebsite
    \/ \E id \in Ids, c \in BOOLEAN : DeleteWebsite(id, c)
    \/ RunAudit
    \/ RefreshData

Timer == NotificationExpires

Resume(i) ==
    \/ \E o \in Outcomes : \E b \in Replies(o, ListBodies(o = "ok", server)) :
          LoadWebsitesSettles(i, o, b)
    \/ /\ Pending(i, "lm")
       /\ \E o \in Outcomes :
             \E b \in Replies(o, MetricsBodies(o = "ok", flows[i].id, flows[i].days)) :
                MetricsSettles(i, o, b)
    \/ \E o \in Outcomes :
          \E b \in (IF o = "notok" THEN ErrorBodies ELSE {NoBody}),
             n \in (IF o = "ok" THEN Ids ELSE {NULL}) : AddSettles(i, o, b, n)
    \/ \E o \in Outcomes : DeleteSettles(i, o)
    \/ \E o \in Outcomes : \E b \in Replies(o, AuditBodies(o = "ok")) :
          AuditSettles(i, o, b)

Next ==
    \/ UserEvent
    \/ Timer
    \/ \E i \in Slots : Resume(i)

Spec == Init /\ [][Next]_vars

\* Every issued request eventually resolves or rejects, so while a request
\* is pending some flow is eventually resumed; every timer eventually fires.
FairSpec ==
    /\ Spec
    /\ WF_vars(\E i \in Slots : Resume(i))
    /\ WF_vars(Timer)

\* ------------------------------------------- displayMetrics as a function
\* A MetricSample as displayMetrics reads it: clicks, impressions, position
MetricSamples ==
    [clicks : 0..MaxCount, impressions : 0..MaxCount, position : {1, 10}]

RECURSIVE ArraysOf(_, _)
\* every array of at most n elements of S
ArraysOf(S, n) ==
    IF n = 0 THEN {<<>>}
    ELSE LET shorter == ArraysOf(S, n - 1)
         IN shorter \cup {Append(a, x) : a \in {b \in shorter : Len(b) = n - 1}, x \in S}

MetricArrays == ArraysOf(MetricSamples, MaxSamples)

\* The page before any metrics were shown, about to call displayMetrics
\* with any array of samples
MetricsInit == InitState /\ metricsArg \in MetricArrays

\* displayMetrics(metricsArg)
ApplyDisplayMetrics ==
    /\ summary = NoSummary
    /\ summary' = DisplayMetrics(metricsArg)
    /\ UNCHANGED <<currentWebsiteId, performanceChart, charts, grid, metricsSection,
                   loadingOverlay, modal, dateRange, notifications, flows, server,
                   nOps, last, metricsArg, latest>>

MetricsNext == ApplyDisplayMetrics

MetricsSpec == MetricsInit /\ [][MetricsNext]_vars

\* ------------------------------------------------------------------ claims
\* C1: in every reachable state currentWebsiteId is null or the id of a
\* website of the list most recently rendered by loadWebsites.
C1_SelectionInRenderedList ==
    currentWebsiteId = NULL \/ HasCard(currentWebsiteId)

\* C2: at most one chart instance that was created and not destroyed exists,
\* and it is the one performanceChart holds.
C2_AtMostOneChart ==
    /\ Cardinality(DOMAIN charts) <= 1
    /\ performanceChart = NULL => DOMAIN charts = {}
    /\ performanceChart # NULL => DOMAIN charts = {performanceChart}

\* a second chart has been created over an earlier one
C2_Witness ==
    /\ performanceChart # NULL /\ performanceChart >= 2
    /\ "updateChart" \in {last.calls[k] : k \in 1..Len(last.calls)}

DeleteEnded(e) == e.op = "loadWebsites" /\ e.kind = "delete"

\* C3: when deleteWebsite(id) succeeds, a selection equal to id becomes null
\* and the metrics panel is hidden; any other selection and the panel's
\* visibility are left as they were.
C3_DeleteSelectionFrame ==
    [][DeleteEnded(last') =>
          IF currentWebsiteId = last'.id
          THEN currentWebsiteId' = NULL /\ metricsSection' = "none"
          ELSE UNCHANGED <<currentWebsiteId, metricsSection>>]_vars

\* the selected website was deleted and a panel that was visible is hidden
C3_Witness ==
    /\ DeleteEnded(last) /\ last.cur = last.id
    /\ currentWebsiteId = NULL /\ metricsSection = "none"

AuditTriggered(e) == e.op = "runAudit" /\ e.kind = "event"

PleaseSelect == [type |-> "error", message |-> "Please select a website first"]

\* C4: runAudit with currentWebsiteId null issues no request and shows an
\* error notification.
C4_AuditWithoutSelection ==
    [][(AuditTriggered(last') /\ currentWebsiteId = NULL) =>
          /\ last'.sent = <<>>
          /\ flows' = flows
          /\ notifications' = Append(notifications, PleaseSelect)]_vars

C4_Witness ==
    /\ AuditTriggered(last) /\ last.cur = NULL
    /\ Len(notifications) > 0
    /\ notifications[Len(notifications)] = PleaseSelect

\* C5: runAudit with a non-null currentWebsiteId (any integer id) issues
\* exactly one audit request for that website, and the outcome is reported by
\* exactly one notification, success on a 2xx response and error otherwise.
C5_AuditWithSelection ==
    /\ (AuditTriggered(last) /\ last.cur # NULL) =>
          last.sent = <<Request("POST", "audit", last.cur, 0)>>
    /\ (last.op = "runAudit" /\ last.kind = "audit") =>
          /\ Len(last.notes) = 1
          /\ last.notes[1].type = IF last.outcome = "ok" THEN "success" ELSE "error"

DeleteTriggered(e) == e.op = "deleteWebsite" /\ e.kind = "event"

\* C6: a DELETE request is issued only by a deleteWebsite call whose prompt
\* was confirmed; a declined call sends nothing, shows nothing and leaves
\* selection, list and overlay unchanged.
C6_DeleteNeedsConfirmation ==
    [][/\ (\E k \in 1..Len(last'.sent) : last'.sent[k].method = "DELETE") =>
             (DeleteTriggered(last') /\ last'.outcome = "confirmed")
       /\ (DeleteTriggered(last') /\ last'.outcome = "declined") =>
             /\ last'.sent = <<>>
             /\ last'.notes = <<>>
             /\ UNCHANGED <<flows, notifications, currentWebsiteId, metricsSection,
                            grid, loadingOverlay>>]_vars

C6_Witness ==
    DeleteTriggered(last) /\ last.outcome = "declined" /\ HasCard(last.id)

\* C7: when every request settles, the overlay is hidden whenever no flow is
\* in progress, and from some point on no flow is in progress and the
\* overlay stays hidden, on success and failure paths alike.
C7_OverlayReleased ==
    /\ [](flows = <<>> => loadingOverlay = "none")
    /\ <>[](flows = <<>> /\ loadingOverlay = "none")

\* the last flow has just ended on a failure path
C7_Witness ==
    /\ flows = <<>> /\ loadingOverlay = "none"
    /\ last.outcome \in {"notok", "reject"}

\* C8: the overlay is visible in every state in which a request has not yet
\* settled, also when flows overlap.
C8_OverlayWhileInFlight ==
    flows # <<>> => loadingOverlay = "flex"

\* C9: loadWebsites and loadWebsiteMetrics run a render step only after a
\* 2xx response; a rejected fetch or a non-2xx response leads to none.
C9_RenderOnlyAfterSuccess ==
    (last.op \in {"loadWebsites", "loadWebsiteMetrics"} /\ last.outcome # "ok") =>
        last.calls = <<>>

DeleteSettled(e) == e.op = "deleteWebsite" /\ e.kind = "delete"

DeleteFailedNote == [type |-> "error", message |-> "Error deleting website"]

\* C10: when the DELETE request fails, an error notification is shown, the
\* selection, the panel's visibility and the grid are as before, and no list
\* reload is issued.
C10_DeleteFailureFrame ==
    [][(DeleteSettled(last') /\ last'.outcome # "ok") =>
          /\ notifications' = Append(notifications, DeleteFailedNote)
          /\ last'.sent = <<>>
          /\ \A k \in 1..Len(flows') : flows'[k].pc # "lw" \/ flows'[k] \in
                 {flows[j] : j \in 1..Len(flows)}
          /\ Len(flows') = Len(flows) - 1
          /\ UNCHANGED <<currentWebsiteId, metricsSection, grid>>]_vars

C10_Witness ==
    /\ DeleteSettled(last) /\ last.outcome = "notok"
    /\ Len(notifications) > 0
    /\ notifications[Len(notifications)] = DeleteFailedNote

AddSettled(e) == e.op = "handleAddWebsite" /\ e.kind = "add"

AddedNote == [type |-> "success", message |-> "Website added successfully!"]

\* C11: on a 2xx create response handleAddWebsite closes the modal, shows a
\* success notification and then issues the list reload, in that order, and
\* leaves the grid as it is; on a non-2xx response or a rejected fetch it
\* shows one error notification (the server's message or the fallback) and
\* issues no reload.
C11_AddOutcome ==
    [][AddSettled(last') =>
          IF last'.outcome = "ok"
          THEN /\ modal' = "none"
               /\ notifications' = Append(notifications, AddedNote)
               /\ last'.calls = <<"hideAddWebsiteModal", "showNotification", "loadWebsites">>
               /\ last'.sent = <<Request("GET", "websites", NULL, 0)>>
               /\ \E k \in 1..Len(flows') : flows'[k].kind = "add" /\ flows'[k].pc = "lw"
               /\ grid' = grid
          ELSE /\ Len(last'.notes) = 1
               /\ last'.notes[1].type = "error"
               /\ last'.notes[1].message \in {ServerError, "Error adding website"}
               /\ last'.outcome = "reject" => last'.notes[1].message = "Error adding website"
               /\ notifications' = notifications \o last'.notes
               /\ last'.sent = <<>>
               /\ Len(flows') = Len(flows) - 1
               /\ grid' = grid]_vars

\* a website was created: the modal is closed and the reload is pending
C11_Witness ==
    /\ AddSettled(last) /\ last.outcome = "ok"
    /\ modal = "none"
    /\ \E k \in 1..Len(flows) : flows[k].kind = "add" /\ flows[k].pc = "lw"

RangeChanged(e) == e.op = "dateRangeChange" /\ e.kind = "event"

\* C12: a change of the date range while currentWebsiteId is non-null (any
\* integer id) issues a metrics request for currentWebsiteId with the newly
\* chosen days; a change while it is null issues none.
C12_RangeChangeReloads ==
    RangeChanged(last) =>
        IF last.cur # NULL
        THEN last.sent = <<Request("GET", "metrics", last.cur, dateRange)>>
        ELSE last.sent = <<>>

\* the k-th smallest id the backend holds
IdAt(k) == CHOOSE x \in server : Cardinality({y \in server : y < x}) = k - 1

\* C14: after a successful loadWebsites the grid is the empty-state prompt
\* and no card when the list is empty, and else exactly one card per website
\* of the list, in list order, with Verified/Pending as is_verified says;
\* nothing of an earlier render remains.
C14_GridIsTheLoadedList ==
    (last.op = "loadWebsites" /\ last.outcome = "ok") =>
        /\ grid.empty = (server = {})
        /\ Len(grid.cards) = Cardinality(server)
        /\ \A k \in 1..Len(grid.cards) :
              /\ grid.cards[k].id = IdAt(k)
              /\ grid.cards[k].status =
                    IF WebsiteRecord(IdAt(k)).is_verified THEN "Verified" ELSE "Pending"

\* after cards were rendered, a reload of the emptied list shows the prompt
C14_Witness ==
    /\ last.op = "loadWebsites" /\ last.outcome = "ok" /\ last.kind = "delete"
    /\ server = {}
    /\ grid.empty /\ Len(grid.cards) = 0

\* C17: between event handlers the metrics panel is visible exactly when
\* currentWebsiteId is non-null.
C17_PanelIffSelection ==
    (metricsSection = "block") <=> (currentWebsiteId # NULL)

\* a website is selected and its panel is shown
C17_Witness ==
    /\ currentWebsiteId # NULL /\ metricsSection = "block"
    /\ last.op = "selectWebsite"

\* C15: every notification is eventually removed by its own timer, with no
\* user event needed; several can be present at once, and a timer removes
\* its own notification and leaves the others in place.
C15_NotificationsExpire ==
    /\ [][Len(notifications') < Len(notifications) =>
             /\ last'.op = "notificationExpires"
             /\ notifications' = Tail(notifications)]_vars
    /\ <>[](notifications = <<>>)

\* one of several notifications has expired and a later one is still shown
C15_Witness ==
    /\ last.op = "notificationExpires"
    /\ Len(notifications) >= 1

RECURSIVE TotalUpTo(_, _, _)
\* metrics[1].field + ... + metrics[n].field
TotalUpTo(metrics, field, n) ==
    IF n = 0 THEN 0 ELSE TotalUpTo(metrics, field, n - 1) + metrics[n][field]

Shows(n, pct) == {Text(fmt, n, pct) : fmt \in {"int", "locale"}}

\* C13: once displayMetrics has run on an array, the clicks field shows the
\* sum of the samples' clicks and the impressions field the sum of their
\* impressions; on an empty array the four fields are the literals 0, 0,
\* 0% and 0; on a non-empty array whose impressions sum to 0 the CTR field
\* is the literal 0%.
C13_SummaryOfArray ==
    summary # NoSummary =>
        LET n == Len(metricsArg)
            clicks == TotalUpTo(metricsArg, "clicks", n)
            impressions == TotalUpTo(metricsArg, "impressions", n)
        IN /\ summary.clicks \in Shows(clicks, FALSE)
           /\ summary.impressions \in Shows(impressions, FALSE)
           /\ n = 0 =>
                 /\ summary.clicks = Text("int", 0, FALSE)
                 /\ summary.impressions = Text("int", 0, FALSE)
                 /\ summary.ctr = Text("int", 0, TRUE)
                 /\ summary.position = Text("int", 0, FALSE)
           /\ (n > 0 /\ impressions = 0) => summary.ctr = Text("int", 0, TRUE)

C13_Witness ==
    /\ summary # NoSummary
    /\ Len(metricsArg) = MaxSamples
    /\ TotalUpTo(metricsArg, "impressions", Len(metricsArg)) = 0
    /\ TotalUpTo(metricsArg, "clicks", Len(metricsArg)) > 0
    /\ summary.ctr = Text("int", 0, TRUE)

MetricsInFlight == \E i \in DOMAIN flows : flows[i].pc = "lm"

\* C16: when no metrics request is in flight and the most recently issued
\* one was answered and rendered, the summary cards and the chart show the
\* samples of that request, whatever order the responses arrived in.
C16_LatestRequestShown ==
    (latest.done = "ok" /\ ~MetricsInFlight) =>
        /\ summary = DisplayMetrics(MetricsOf(latest.id, latest.days))
        /\ performanceChart # NULL
        /\ charts[performanceChart] = MetricsOf(latest.id, latest.days)

====
